---- MODULE Spec2Model ----
(***************************************************************************)
(* Charter-party performance calculator.                                   *)
(*                                                                         *)
(* Two Streamlit programs share the repository: c.CPsuite.py ("suite",     *)
(* process_calculation_data) and charterparty_app.py ("app",               *)
(* perform_calculations).  A session holds the operator's CP terms,        *)
(* excluded periods, weather definition and the uploaded table; a          *)
(* calculation run is a function of that snapshot.                         *)
(*                                                                         *)
(* Numbers.  Table cells and sums are integers; rates, speeds and fuel     *)
(* quantities are exact rationals [n, d] (d > 0, lowest terms), so every   *)
(* comparison of the code is decided exactly (float rounding is not        *)
(* modelled).  A division whose denominator is zero and that the code      *)
(* does not guard ends the run with status "div_by_zero": pandas/numpy     *)
(* scalars give inf/nan there, Python numbers raise ZeroDivisionError;     *)
(* either way the run yields no finite metrics.                            *)
(***************************************************************************)
EXTENDS Integers, Sequences, FiniteSets, TLC

VARIABLES
    variant,             \* which program this session runs: "suite" | "app"
    cp_terms,            \* st.session_state.cp_terms
    excluded_periods,    \* st.session_state.excluded_periods / .exclusions
    weather_definition,  \* st.session_state.weather_definition / .weather_def
    calc_data,           \* st.session_state.calc_data (NoData = None)
    results,             \* what the last calculation run returned
    message              \* the last st.error / st.success shown by a handler

vars == <<variant, cp_terms, excluded_periods, weather_definition,
          calc_data, results, message>>

-----------------------------------------------------------------------------
(* Exact rational arithmetic standing for Python float arithmetic.         *)

Abs(x) == IF x < 0 THEN -x ELSE x

RECURSIVE GCD(_, _)
GCD(a, b) == IF b = 0 THEN a ELSE GCD(b, a % b)

Rat(n, d) ==
    LET s == IF d < 0 THEN -1 ELSE 1
        g == GCD(Abs(n), Abs(d))
    IN  [n |-> (s * n) \div g, d |-> (s * d) \div g]

RatAdd(a, b) == Rat(a.n * b.d + b.n * a.d, a.d * b.d)
RatSub(a, b) == Rat(a.n * b.d - b.n * a.d, a.d * b.d)
RatMul(a, b) == Rat(a.n * b.n, a.d * b.d)
\* a / b for b # 0
RatDiv(a, b) == Rat(a.n * b.d, a.d * b.n)
RatLt(a, b) == a.n * b.d < b.n * a.d
RatGt(a, b) == RatLt(b, a)
Zero == Rat(0, 1)
\* Python max(x, y): y only when y > x
RatMax(x, y) == IF RatGt(y, x) THEN y ELSE x

-----------------------------------------------------------------------------
(* Table cells: a number, a text, or an empty cell (NaN).                  *)

Num(k) == [t |-> "num", n |-> k, s |-> ""]
Str(x) == [t |-> "str", n |-> 0, s |-> x]
NaN == [t |-> "nan", n |-> 0, s |-> ""]

\* The numerals a text cell may hold; any other text is not a number.
Numerals == <<"0", "1", "2", "3">>

\* only cells that are numbers already are kept; numerals in text are lost
to_numeric_strict(c) == IF c.t = "num" THEN c ELSE NaN

\* pd.to_numeric(..., errors='coerce') on one cell
to_numeric(c) ==
    IF c.t = "num" THEN c
    ELSE IF c.t = "str" /\ \E i \in 1..Len(Numerals) : Numerals[i] = c.s
         THEN Num((CHOOSE i \in 1..Len(Numerals) : Numerals[i] = c.s) - 1)
         ELSE NaN

\* Series.sum() of one column: NaN cells are skipped
RECURSIVE ColumnSum(_, _)
ColumnSum(rows, col) ==
    IF rows = <<>> THEN 0
    ELSE (IF Head(rows)[col].t = "num" THEN Head(rows)[col].n ELSE 0)
         + ColumnSum(Tail(rows), col)

NoData == [cols |-> {}, rows |-> <<>>, tz_aware |-> FALSE]

-----------------------------------------------------------------------------
(* Record normalizer of the suite: ordered alias lists, first match wins.  *)

column_mapping ==
    [distance |-> <<"distance", "distance_travelled",
                    "distance_travelled_actual", "distance_nm">>,
     time_hrs |-> <<"steaming_time_hrs", "time_hrs", "hours", "steaming_hours">>,
     me_fuel |-> <<"me_fuel_consumed", "me_fuel", "fuel_consumed",
                   "fuel_consumption">>,
     weather_status |-> <<"day_status", "weather_status", "weather_condition">>,
     event_type |-> <<"event_type", "event">>]

Matches(possibilities, columns) ==
    {i \in 1..Len(possibilities) : possibilities[i] \in columns}

\* the loop runs to the end of the list, so the last match wins
FirstMatch_last(possibilities, columns) ==
    LET m == Matches(possibilities, columns)
    IN  possibilities[CHOOSE i \in m : \A j \in m : i >= j]

FirstMatch(possibilities, columns) ==
    LET m == Matches(possibilities, columns)
    IN  possibilities[CHOOSE i \in m : \A j \in m : i <= j]

column_dict(columns) ==
    [target \in {t \in DOMAIN column_mapping :
                     Matches(column_mapping[t], columns) # {}}
        |-> FirstMatch(column_mapping[target], columns)]

\* column_dict.get(target, None); "" stands for None
NoColumn == ""
ColumnOf(cd, target) == IF target \in DOMAIN cd THEN cd[target] ELSE NoColumn

AtSeaEvents == {"NOON AT SEA", "COSP", "EOSP"}

\* df[df[col].isin(['NOON AT SEA', 'COSP', 'EOSP'])]
EventFilter(rows, col) ==
    SelectSeq(rows, LAMBDA r : r[col].t = "str" /\ r[col].s \in AtSeaEvents)

\* the row's timestamp lies in the closed interval of some period
InExcludedPeriod(r, periods) ==
    \E i \in 1..Len(periods) :
        /\ r["datetime"].n >= periods[i].from
        /\ r["datetime"].n <= periods[i].to

\* the mask is reset for every period, so only the last period excludes
ExclusionFilter_last(rows, periods) ==
    SelectSeq(rows, LAMBDA r :
        ~InExcludedPeriod(r, IF periods = <<>> THEN <<>>
                             ELSE <<periods[Len(periods)]>>))

ExclusionFilter(rows, periods) ==
    SelectSeq(rows, LAMBDA r : ~InExcludedPeriod(r, periods))

\* comparing a tz-naive datetime column with the tz-aware instants that
\* to_utc stores raises TypeError
ExclusionRaises(df, periods) ==
    "datetime" \in df.cols /\ periods # <<>> /\ ~df.tz_aware

CoerceRows(rows, coerced) ==
    [i \in 1..Len(rows) |->
        [c \in DOMAIN rows[i] |->
            IF c \in coerced THEN to_numeric(rows[i][c]) ELSE rows[i][c]]]

-----------------------------------------------------------------------------
(* Aggregator and warranty reconciler: the formulas both programs share.   *)

speed_tolerance_knots == Rat(1, 2)
fuel_tolerance_percent == Rat(5, 1)

\* floor division in place of true division
GuardedRate_floor(x, y) == IF y > 0 THEN Rat(x \div y, 1) ELSE Zero

\* x / y if y > 0 else 0, on integer sums
GuardedRate(x, y) == IF y > 0 THEN Rat(x, y) ELSE Zero

fuel_tolerance_mt(warranted_consumption) ==
    RatMul(warranted_consumption, RatDiv(fuel_tolerance_percent, Rat(100, 1)))

\* the tolerance added as 5 MT instead of 5 % of the warranted consumption
warranted_plus_tol_mt(warranted_consumption) ==
    RatAdd(warranted_consumption, fuel_tolerance_percent)

warranted_plus_tol(warranted_consumption) ==
    RatAdd(warranted_consumption, fuel_tolerance_mt(warranted_consumption))

warranted_minus_tol(warranted_consumption) ==
    RatSub(warranted_consumption, fuel_tolerance_mt(warranted_consumption))

\* `or` in place of `and` in the first test: the observed speed always passes
effective_speed_or(good_speed, warranted_speed) ==
    IF \/ RatLt(good_speed, RatAdd(warranted_speed, speed_tolerance_knots))
       \/ RatGt(good_speed, RatSub(warranted_speed, speed_tolerance_knots))
    THEN good_speed
    ELSE IF RatGt(good_speed, RatAdd(warranted_speed, speed_tolerance_knots))
         THEN RatAdd(warranted_speed, speed_tolerance_knots)
         ELSE RatSub(warranted_speed, speed_tolerance_knots)

\* suite: strictly inside the band, else above the band, else the lower edge
effective_speed(good_speed, warranted_speed) ==
    IF /\ RatLt(good_speed, RatAdd(warranted_speed, speed_tolerance_knots))
       /\ RatGt(good_speed, RatSub(warranted_speed, speed_tolerance_knots))
    THEN good_speed
    ELSE IF RatGt(good_speed, RatAdd(warranted_speed, speed_tolerance_knots))
         THEN RatAdd(warranted_speed, speed_tolerance_knots)
         ELSE RatSub(warranted_speed, speed_tolerance_knots)

\* the test against the lower edge left out: a slow observed speed passes
speed_condition_upper_only(good_speed, warranted_speed) ==
    IF RatGt(good_speed, RatAdd(warranted_speed, speed_tolerance_knots))
    THEN RatAdd(warranted_speed, speed_tolerance_knots)
    ELSE good_speed

\* app: below the band, else above the band, else the observed speed
speed_condition(good_speed, warranted_speed) ==
    IF RatLt(good_speed, RatSub(warranted_speed, speed_tolerance_knots))
    THEN RatSub(warranted_speed, speed_tolerance_knots)
    ELSE IF RatGt(good_speed, RatAdd(warranted_speed, speed_tolerance_knots))
         THEN RatAdd(warranted_speed, speed_tolerance_knots)
         ELSE good_speed

entire_voyage_cons(total_distance, good_speed, good_fo_day) ==
    IF RatGt(good_speed, Zero)
    THEN RatMul(RatDiv(Rat(total_distance, 1), good_speed),
                RatDiv(good_fo_day, Rat(24, 1)))
    ELSE Zero

\* (total_distance / speed) * (warranted_tol / 24), for speed # 0
warranted_fo(total_distance, speed, warranted_tol) ==
    RatMul(RatDiv(Rat(total_distance, 1), speed),
           RatDiv(warranted_tol, Rat(24, 1)))

fuel_overconsumption(voyage_cons, max_warranted_fo) ==
    RatMax(Zero, RatSub(voyage_cons, max_warranted_fo))

\* operands of the subtraction exchanged
fuel_saving_swapped(min_warranted_fo, voyage_cons) ==
    RatMax(Zero, RatSub(voyage_cons, min_warranted_fo))

fuel_saving(min_warranted_fo, voyage_cons) ==
    RatMax(Zero, RatSub(min_warranted_fo, voyage_cons))

\* operands of the subtraction exchanged
time_gained_swapped(min_time_at_warranted_spd, time_at_good_wx_speed) ==
    RatMax(Zero, RatSub(time_at_good_wx_speed, min_time_at_warranted_spd))

time_gained(min_time_at_warranted_spd, time_at_good_wx_speed) ==
    RatMax(Zero, RatSub(min_time_at_warranted_spd, time_at_good_wx_speed))

time_lost(time_at_good_wx_speed, max_time_at_warranted_spd) ==
    RatMax(Zero, RatSub(time_at_good_wx_speed, max_time_at_warranted_spd))

\* the denominators of the divisions that carry no guard
UnguardedDenominators(speed, warranted_speed) ==
    {speed,
     RatSub(warranted_speed, speed_tolerance_knots),
     RatAdd(warranted_speed, speed_tolerance_knots)}

\* Everything from the sums to the returned dict.  days = [all, good, bad]
\* are the row selections, cols = [distance, time, fuel] the resolved column
\* names, w = [speed, consumption] the warranted values and `speed` the
\* effective speed the calling program chose.
Reconcile(days, cols, w, speed, good_speed) ==
    LET Sum(rows, col) == IF col = NoColumn THEN 0 ELSE ColumnSum(rows, col)
        all_rows == days.all
        good_days == days.good
        bad_days == days.bad
        distance_col == cols.distance
        time_col == cols.time
        fuel_col == cols.fuel
        warranted_speed == w.speed
        warranted_consumption == w.consumption
        total_distance == Sum(all_rows, distance_col)
        total_time == Sum(all_rows, time_col)
        total_fuel == Sum(all_rows, fuel_col)
        good_distance == Sum(good_days, distance_col)
        good_time == Sum(good_days, time_col)
        good_fuel == Sum(good_days, fuel_col)
        good_fo_hr == GuardedRate(good_fuel, good_time)
        good_fo_day == RatMul(good_fo_hr, Rat(24, 1))
        bad_distance == Sum(bad_days, distance_col)
        bad_time == Sum(bad_days, time_col)
        bad_fuel == Sum(bad_days, fuel_col)
        voyage_cons == entire_voyage_cons(total_distance, good_speed, good_fo_day)
        max_fo == warranted_fo(total_distance, speed,
                               warranted_plus_tol(warranted_consumption))
        min_fo == warranted_fo(total_distance, speed,
                               warranted_minus_tol(warranted_consumption))
        time_at_speed == RatDiv(Rat(total_distance, 1), speed)
        max_time == RatDiv(Rat(total_distance, 1),
                           RatSub(warranted_speed, speed_tolerance_knots))
        min_time == RatDiv(Rat(total_distance, 1),
                           RatAdd(warranted_speed, speed_tolerance_knots))
    IN  IF \E q \in UnguardedDenominators(speed, warranted_speed) : q.n = 0
        THEN [status |-> "div_by_zero",
              warranted_speed |-> warranted_speed,
              warranted_consumption |-> warranted_consumption,
              effective_speed |-> speed]
        ELSE [status |-> "ok",
              warranted_speed |-> warranted_speed,
              warranted_consumption |-> warranted_consumption,
              effective_speed |-> speed,
              df_processed |-> all_rows,
              total_distance |-> total_distance,
              total_steaming_time |-> total_time,
              voyage_avg_speed |-> GuardedRate(total_distance, total_time),
              good_wx_distance |-> good_distance,
              good_wx_time |-> good_time,
              good_wx_speed |-> good_speed,
              good_wx_fo_cons |-> good_fuel,
              good_wx_fo_rate_hr |-> good_fo_hr,
              good_wx_fo_rate_day |-> good_fo_day,
              bad_wx_distance |-> bad_distance,
              bad_wx_time |-> bad_time,
              bad_wx_speed |-> GuardedRate(bad_distance, bad_time),
              bad_wx_fo_cons |-> bad_fuel,
              total_me_fuel |-> total_fuel,
              entire_voyage_cons |-> voyage_cons,
              max_warranted_fo |-> max_fo,
              min_warranted_fo |-> min_fo,
              fuel_overconsumption |-> fuel_overconsumption(voyage_cons, max_fo),
              fuel_saving |-> fuel_saving(min_fo, voyage_cons),
              time_at_good_wx_speed |-> time_at_speed,
              max_time_at_warranted_spd |-> max_time,
              min_time_at_warranted_spd |-> min_time,
              time_gained |-> time_gained(min_time, time_at_speed),
              time_lost |-> time_lost(time_at_speed, max_time)]

-----------------------------------------------------------------------------
(* c.CPsuite.py                                                            *)

\* the first CP term, or the built-in defaults when the list is empty
SuiteWarranted(terms) ==
    IF terms # <<>>
    THEN [speed |-> terms[1].speed, consumption |-> terms[1].me_consumption]
    ELSE [speed |-> Rat(13, 1), consumption |-> Rat(20, 1)]

\* rows after the event-type filter and the excluded-period filter
SuiteFiltered(df, periods) ==
    LET cd == column_dict(df.cols)
        by_event == IF "event_type" \in DOMAIN cd
                    THEN EventFilter(df.rows, cd["event_type"])
                    ELSE df.rows
    IN  IF "datetime" \in df.cols
        THEN ExclusionFilter(by_event, periods)
        ELSE by_event

\* every resolved column is passed through pd.to_numeric
SuiteProcessed(df, periods) ==
    LET cd == column_dict(df.cols)
    IN  CoerceRows(SuiteFiltered(df, periods), {cd[t] : t \in DOMAIN cd})

\* cell > limit; an empty cell exceeds nothing
Exceeds(cell, limit) == cell.t = "num" /\ RatGt(Rat(cell.n, 1), limit)

\* the good_weather flag computed from wind, wave and current
good_weather(r, columns, weather_def) ==
    /\ ~ (/\ "wind_force" \in columns
          /\ "wave_height" \in columns
          /\ \/ Exceeds(r["wind_force"], Rat(weather_def.beaufort_scale, 1))
             \/ Exceeds(r["wave_height"], weather_def.wave_height))
    /\ ~ (/\ weather_def.include_current
          /\ "current" \in columns
          /\ Exceeds(r["current"], Rat(1, 1)))

SuiteGoodDays(rows, columns, weather_def) ==
    LET weather_col == ColumnOf(column_dict(columns), "weather_status")
    IN  IF weather_col # NoColumn
        THEN SelectSeq(rows, LAMBDA r : r[weather_col] = Str("GOOD WEATHER DAY"))
        ELSE SelectSeq(rows, LAMBDA r : good_weather(r, columns, weather_def))

SuiteBadDays(rows, columns, weather_def) ==
    LET weather_col == ColumnOf(column_dict(columns), "weather_status")
    IN  IF weather_col # NoColumn
        THEN SelectSeq(rows, LAMBDA r : r[weather_col] = Str("BAD WEATHER DAY"))
        ELSE SelectSeq(rows, LAMBDA r : ~good_weather(r, columns, weather_def))

process_calculation_data(df, terms, weather_def, periods) ==
    LET cd == column_dict(df.cols)
        w == SuiteWarranted(terms)
        rows == SuiteProcessed(df, periods)
        good_days == SuiteGoodDays(rows, df.cols, weather_def)
        bad_days == SuiteBadDays(rows, df.cols, weather_def)
        good_speed == GuardedRate(
            IF "distance" \in DOMAIN cd THEN ColumnSum(good_days, cd["distance"]) ELSE 0,
            IF "time_hrs" \in DOMAIN cd THEN ColumnSum(good_days, cd["time_hrs"]) ELSE 0)
    IN  IF ExclusionRaises(df, periods)
        THEN [status |-> "error"]
        ELSE Reconcile([all |-> rows, good |-> good_days, bad |-> bad_days],
                       [distance |-> ColumnOf(cd, "distance"),
                        time |-> ColumnOf(cd, "time_hrs"),
                        fuel |-> ColumnOf(cd, "me_fuel")],
                       w, effective_speed(good_speed, w.speed), good_speed)

-----------------------------------------------------------------------------
(* charterparty_app.py                                                     *)

AppColumns == {"event_type", "distance_travelled_actual", "steaming_time_hrs",
               "me_fuel_consumed", "day_status"}

numeric_cols == {"distance_travelled_actual", "steaming_time_hrs",
                 "me_fuel_consumed"}

AppProcessed(df) == CoerceRows(EventFilter(df.rows, "event_type"), numeric_cols)

AppGoodDays(rows) ==
    SelectSeq(rows, LAMBDA r : r["day_status"] = Str("GOOD WEATHER DAY"))

\* the good-weather filter pasted for the bad-weather class
AppBadDays_pasted(rows) ==
    SelectSeq(rows, LAMBDA r : r["day_status"] = Str("GOOD WEATHER DAY"))

AppBadDays(rows) ==
    SelectSeq(rows, LAMBDA r : r["day_status"] = Str("BAD WEATHER DAY"))

perform_calculations(df, terms) ==
    IF terms = <<>>
    THEN [status |-> "config_error"]
    ELSE IF ~ (AppColumns \subseteq df.cols)
    THEN [status |-> "error"]    \* KeyError, reported by calculations()
    ELSE
    LET rows == AppProcessed(df)
        good_days == AppGoodDays(rows)
        good_speed == GuardedRate(
            ColumnSum(good_days, "distance_travelled_actual"),
            ColumnSum(good_days, "steaming_time_hrs"))
    IN  Reconcile([all |-> rows, good |-> good_days, bad |-> AppBadDays(rows)],
                  [distance |-> "distance_travelled_actual",
                   time |-> "steaming_time_hrs",
                   fuel |-> "me_fuel_consumed"],
                  [speed |-> terms[1].speed,
                   consumption |-> terms[1].me_consumption],
                  speed_condition(good_speed, terms[1].speed), good_speed)

-----------------------------------------------------------------------------
(* Bounds and the inputs drawn within them.                                *)

MaxTerms == 2           \* CP terms a session may hold
MaxPeriods == 2         \* excluded periods a session may hold
MaxSpeedHalves == 2     \* entered speeds are 0, 0.5, ..., MaxSpeedHalves / 2 kn
MaxConsumptionDays == 1 \* entered ME consumptions are 0, 24, ... MT/day
MaxInstant == 3         \* timestamps are the instants 1..MaxInstant
MaxRows == 2            \* rows of an uploaded table
MaxDistance == 3        \* distance cells are 0..MaxDistance nm
MaxTime == 3            \* steaming-time cells are 0..MaxTime hours
MaxFuel == 2            \* fuel cells are 0..MaxFuel MT
MaxCalcSpeedHalves == 4 \* warranted speeds of the calculation specification

SpeedValues == {Rat(k, 2) : k \in 0..MaxSpeedHalves}
ConsumptionValues == {Rat(24 * k, 1) : k \in 0..MaxConsumptionDays}
TermValues ==
    [speed : SpeedValues, me_consumption : ConsumptionValues,
     ae_consumption : {Zero}]
Instants == 1..MaxInstant
BeaufortValues == {4, 5}
WaveLimitValues == {Rat(5, 2), Rat(7, 2)}
WeatherDefinitions ==
    [beaufort_scale : BeaufortValues, wave_height : WaveLimitValues,
     include_current : BOOLEAN]
SessionWeatherDefinitions ==
    [beaufort_scale : BeaufortValues, wave_height : {Rat(5, 2)},
     include_current : BOOLEAN]

SeqsUpTo(S, k) == UNION {[1..m -> S] : m \in 0..k}

NoResult == [status |-> "none"]

\* Tables of the session specification: noon reports with a timestamp, in
\* the column layout both programs read.
TimedRow(t, status) ==
    [c \in AppColumns \cup {"datetime"} |->
        CASE c = "event_type" -> Str("NOON AT SEA")
          [] c = "distance_travelled_actual" -> Num(t)
          [] c = "steaming_time_hrs" -> Num(1)
          [] c = "me_fuel_consumed" -> Num(1)
          [] c = "day_status" -> Str(status)
          [] c = "datetime" -> Num(t)]

SessionTables ==
    {[cols |-> AppColumns \cup {"datetime"},
      rows |-> <<TimedRow(1, "GOOD WEATHER DAY"), TimedRow(t, "BAD WEATHER DAY")>>,
      tz_aware |-> z] : t \in 2..MaxInstant, z \in BOOLEAN}

-----------------------------------------------------------------------------
(* The session and its handlers.                                           *)

SuiteDefaults ==
    [beaufort_scale |-> 5, wave_height |-> Rat(5, 2), include_current |-> FALSE]
AppDefaults ==
    [beaufort_scale |-> 6, wave_height |-> Zero, include_current |-> FALSE]

Init ==
    /\ variant \in {"suite", "app"}
    /\ cp_terms = <<>>
    /\ excluded_periods = <<>>
    /\ weather_definition = IF variant = "suite" THEN SuiteDefaults ELSE AppDefaults
    /\ calc_data = NoData
    /\ results = NoResult
    /\ message = ""

RemoveAt(seq, i) == SubSeq(seq, 1, i - 1) \o SubSeq(seq, i + 1, Len(seq))

\* c.CPsuite.py, form "add_cp_term"
SuiteAddCPTerm ==
    /\ variant = "suite"
    /\ Len(cp_terms) < MaxTerms
    /\ \E term \in TermValues : cp_terms' = Append(cp_terms, term)
    /\ message' = "CP Term added successfully!"
    /\ results' = NoResult
    /\ UNCHANGED <<variant, excluded_periods, weather_definition, calc_data>>

\* c.CPsuite.py, form "delete_cp_term"
SuiteDeleteCPTerm ==
    /\ variant = "suite"
    /\ cp_terms # <<>>
    /\ \E term_to_delete \in 1..Len(cp_terms) :
           cp_terms' = RemoveAt(cp_terms, term_to_delete)
    /\ message' = "CP Term deleted successfully!"
    /\ results' = NoResult
    /\ UNCHANGED <<variant, excluded_periods, weather_definition, calc_data>>

\* c.CPsuite.py, the three weather-definition widgets
SuiteSetWeatherDefinition ==
    /\ variant = "suite"
    /\ \E wd \in SessionWeatherDefinitions :
           /\ wd # weather_definition
           /\ weather_definition' = wd
    /\ message' = ""
    /\ results' = NoResult
    /\ UNCHANGED <<variant, cp_terms, excluded_periods, calc_data>>

\* c.CPsuite.py, form "add_excluded_period"
SuiteAddExcludedPeriod ==
    /\ variant = "suite"
    /\ Len(excluded_periods) < MaxPeriods
    /\ \E from_dt \in Instants, to_dt \in Instants :
           IF from_dt < to_dt
           THEN /\ excluded_periods' =
                       Append(excluded_periods, [from |-> from_dt, to |-> to_dt])
                /\ message' = "Excluded period added successfully!"
           ELSE /\ excluded_periods' = excluded_periods
                /\ message' = "Invalid date range. 'From' must be before 'To'."
    /\ results' = NoResult
    /\ UNCHANGED <<variant, cp_terms, weather_definition, calc_data>>

\* c.CPsuite.py, form "delete_excluded_period"
SuiteDeleteExcludedPeriod ==
    /\ variant = "suite"
    /\ excluded_periods # <<>>
    /\ \E period_to_delete \in 1..Len(excluded_periods) :
           excluded_periods' = RemoveAt(excluded_periods, period_to_delete)
    /\ message' = "Excluded period deleted successfully!"
    /\ results' = NoResult
    /\ UNCHANGED <<variant, cp_terms, weather_definition, calc_data>>

\* c.CPsuite.py, "Calculation Data Upload"
SuiteUpload ==
    /\ variant = "suite"
    /\ \E df \in SessionTables :
           /\ df # calc_data
           /\ calc_data' = df
    /\ message' = "File uploaded successfully."
    /\ results' = NoResult
    /\ UNCHANGED <<variant, cp_terms, excluded_periods, weather_definition>>

\* c.CPsuite.py: one run of process_calculation_data on the session's snapshot
SuiteCalculate ==
    /\ variant = "suite"
    /\ calc_data # NoData
    /\ results' = process_calculation_data(calc_data, cp_terms,
                                           weather_definition, excluded_periods)
    /\ message' = ""
    /\ UNCHANGED <<variant, cp_terms, excluded_periods, weather_definition,
                   calc_data>>

\* charterparty_app.py, button "Add CP Term"
AppAddCPTerm ==
    /\ variant = "app"
    /\ Len(cp_terms) < MaxTerms
    /\ \E term \in TermValues : cp_terms' = Append(cp_terms, term)
    /\ message' = ""
    /\ results' = NoResult
    /\ UNCHANGED <<variant, excluded_periods, weather_definition, calc_data>>

\* charterparty_app.py, button "Clear CP Terms"
AppClearCPTerms ==
    /\ variant = "app"
    /\ cp_terms # <<>>
    /\ cp_terms' = <<>>
    /\ message' = ""
    /\ results' = NoResult
    /\ UNCHANGED <<variant, excluded_periods, weather_definition, calc_data>>

\* charterparty_app.py, button "Add Exclusion": appended as entered
AppAddExclusion ==
    /\ variant = "app"
    /\ Len(excluded_periods) < MaxPeriods
    /\ \E start \in Instants, end \in Instants :
           excluded_periods' = Append(excluded_periods, [from |-> start, to |-> end])
    /\ message' = ""
    /\ results' = NoResult
    /\ UNCHANGED <<variant, cp_terms, weather_definition, calc_data>>

\* charterparty_app.py, button "Clear Exclusions"
AppClearExclusions ==
    /\ variant = "app"
    /\ excluded_periods # <<>>
    /\ excluded_periods' = <<>>
    /\ message' = ""
    /\ results' = NoResult
    /\ UNCHANGED <<variant, cp_terms, weather_definition, calc_data>>

\* charterparty_app.py, "Data Upload"
AppUpload ==
    /\ variant = "app"
    /\ \E df \in SessionTables :
           /\ df # calc_data
           /\ calc_data' = df
    /\ message' = ""
    /\ results' = NoResult
    /\ UNCHANGED <<variant, cp_terms, excluded_periods, weather_definition>>

AppMessage(r) ==
    CASE r.status = "config_error" -> "No CP Terms defined!"
      [] r.status = "error" -> "Calculation error"
      [] OTHER -> ""

\* charterparty_app.py, page "Calculations"
calculations ==
    /\ variant = "app"
    /\ IF calc_data # NoData
       THEN /\ results' = perform_calculations(calc_data, cp_terms)
            /\ message' = AppMessage(results')
       ELSE /\ results' = NoResult
            /\ message' = "Please upload calculation data in Configuration page"
    /\ UNCHANGED <<variant, cp_terms, excluded_periods, weather_definition,
                   calc_data>>

Next ==
    \/ SuiteAddCPTerm
    \/ SuiteDeleteCPTerm
    \/ SuiteSetWeatherDefinition
    \/ SuiteAddExcludedPeriod
    \/ SuiteDeleteExcludedPeriod
    \/ SuiteUpload
    \/ SuiteCalculate
    \/ AppAddCPTerm
    \/ AppClearCPTerms
    \/ AppAddExclusion
    \/ AppClearExclusions
    \/ AppUpload
    \/ calculations

Spec == Init /\ [][Next]_vars

-----------------------------------------------------------------------------
(* The calculation as a function of its inputs: one CP term, no excluded   *)
(* periods, and every table of one good-weather and one bad-weather noon   *)
(* report, in the status layout (a day_status column) for the app and in   *)
(* the wind layout (wind and wave columns, no status column) for the       *)
(* suite.  The good day carries the fuel the warranty is compared with.    *)

BaseColumns == {"event_type", "distance_travelled_actual",
                "steaming_time_hrs", "me_fuel_consumed"}

WindColumns == BaseColumns \cup {"wind_force", "wave_height"}

StatusValues == {"GOOD WEATHER DAY", "BAD WEATHER DAY", "MODERATE"}

EventValues == {"NOON AT SEA", "IN PORT"}

StatusRow(e, d, h, f, status) ==
    [c \in AppColumns |->
        CASE c = "event_type" -> Str(e)
          [] c = "distance_travelled_actual" -> Num(d)
          [] c = "steaming_time_hrs" -> Num(h)
          [] c = "me_fuel_consumed" -> Num(f)
          [] c = "day_status" -> Str(status)]

WindRow(e, d, h, f, wind) ==
    [c \in WindColumns |->
        CASE c = "event_type" -> Str(e)
          [] c = "distance_travelled_actual" -> Num(d)
          [] c = "steaming_time_hrs" -> Num(h)
          [] c = "me_fuel_consumed" -> Num(f)
          [] c = "wind_force" -> Num(wind)
          [] c = "wave_height" -> Num(1)]

StatusTables ==
    {[cols |-> AppColumns, tz_aware |-> FALSE,
      rows |-> <<StatusRow("NOON AT SEA", gd, gh, gf, "GOOD WEATHER DAY"),
                 StatusRow("NOON AT SEA", bd, bh, 1, "BAD WEATHER DAY")>>] :
        gd \in 0..MaxDistance, gh \in 0..MaxTime, gf \in 0..MaxFuel,
        bd \in 0..MaxDistance, bh \in 0..MaxTime}

WindTables ==
    {[cols |-> WindColumns, tz_aware |-> FALSE,
      rows |-> <<WindRow("NOON AT SEA", gd, gh, gf, 5),
                 WindRow("NOON AT SEA", bd, bh, 1, 6)>>] :
        gd \in 0..MaxDistance, gh \in 0..MaxTime, gf \in 0..MaxFuel,
        bd \in 0..MaxDistance, bh \in 0..MaxTime}

CalcTermValues ==
    [speed : {Rat(k, 2) : k \in 0..MaxCalcSpeedHalves},
     me_consumption : ConsumptionValues, ae_consumption : {Zero}]

CalcInit ==
    /\ variant \in {"suite", "app"}
    /\ cp_terms \in {<<term>> : term \in CalcTermValues}
    /\ excluded_periods = <<>>
    /\ weather_definition = IF variant = "suite" THEN SuiteDefaults ELSE AppDefaults
    /\ calc_data \in IF variant = "suite" THEN WindTables ELSE StatusTables
    /\ results = NoResult
    /\ message = ""

CalcNext == SuiteCalculate \/ calculations

SpecCalc == CalcInit /\ [][CalcNext]_vars

-----------------------------------------------------------------------------
(* The split of the days into weather classes: one valid CP term, no       *)
(* excluded periods, and every table of at most MaxRows reports, at sea or *)
(* in port, of one hour and one ton each, in the status layout or (suite   *)
(* only) the wind layout.                                                  *)

OneKnotTerm ==
    [speed |-> Rat(1, 1), me_consumption |-> Rat(24, 1), ae_consumption |-> Zero]

StatusDays ==
    {StatusRow(e, d, 1, 1, st) :
        e \in EventValues, d \in 0..MaxDistance, st \in StatusValues}

WindDays ==
    {WindRow(e, d, 1, 1, w) :
        e \in EventValues, d \in 0..MaxDistance, w \in {5, 6}}

StatusDayTables ==
    {[cols |-> AppColumns, rows |-> rs, tz_aware |-> FALSE] :
        rs \in SeqsUpTo(StatusDays, MaxRows)}

WindDayTables ==
    {[cols |-> WindColumns, rows |-> rs, tz_aware |-> FALSE] :
        rs \in SeqsUpTo(WindDays, MaxRows)}

DaysInit ==
    /\ variant \in {"suite", "app"}
    /\ cp_terms = <<OneKnotTerm>>
    /\ excluded_periods = <<>>
    /\ weather_definition = IF variant = "suite" THEN SuiteDefaults ELSE AppDefaults
    /\ calc_data \in IF variant = "suite"
                     THEN StatusDayTables \cup WindDayTables
                     ELSE StatusDayTables
    /\ results = NoResult
    /\ message = ""

DaysNext == SuiteCalculate \/ calculations

SpecDays == DaysInit /\ [][DaysNext]_vars

-----------------------------------------------------------------------------
(* The suite's threshold classification: tables without a status column    *)
(* that carry any subset of the wind, wave and current columns, under      *)
(* every weather definition.  Each row is one mile in one hour.            *)

WeatherColumns == {"wind_force", "wave_height", "current"}

WxCell(c, wind, wave, current) ==
    CASE c = "event_type" -> Str("NOON AT SEA")
      [] c = "distance_travelled_actual" -> Num(1)
      [] c = "steaming_time_hrs" -> Num(1)
      [] c = "me_fuel_consumed" -> Num(1)
      [] c = "wind_force" -> wind
      [] c = "wave_height" -> wave
      [] c = "current" -> current

WxRows(columns) ==
    {[c \in columns |-> WxCell(c, wind, wave, current)] :
        wind \in {Num(5), Num(6), NaN}, wave \in {Num(2), Num(3), NaN},
        current \in {Num(1), Num(2)}}

WxTables ==
    UNION {{[cols |-> BaseColumns \cup W, rows |-> rs, tz_aware |-> FALSE] :
               rs \in SeqsUpTo(WxRows(BaseColumns \cup W), MaxRows)} :
           W \in SUBSET WeatherColumns}

WxInit ==
    /\ variant = "suite"
    /\ cp_terms \in {<<term>> : term \in
           {t \in TermValues : RatGt(t.speed, speed_tolerance_knots)
                               /\ RatGt(t.me_consumption, Zero)}}
    /\ excluded_periods = <<>>
    /\ weather_definition \in WeatherDefinitions
    /\ calc_data \in WxTables
    /\ results = NoResult
    /\ message = ""

WxNext == SuiteCalculate

SpecWx == WxInit /\ [][WxNext]_vars

-----------------------------------------------------------------------------
(* The suite's excluded-period filter: one valid CP term, every table of   *)
(* at most MaxRows timed noon reports, with a tz-aware or a tz-naive       *)
(* datetime column, and every list of at most MaxPeriods periods that the  *)
(* suite's form stores (from < to).                                        *)

StoredPeriods ==
    {p \in [from : Instants, to : Instants] : p.from < p.to}

TimedTables ==
    {[cols |-> AppColumns \cup {"datetime"}, rows |-> rs, tz_aware |-> z] :
        rs \in SeqsUpTo({TimedRow(t, "GOOD WEATHER DAY") : t \in Instants},
                        MaxRows),
        z \in BOOLEAN}

ExclInit ==
    /\ variant = "suite"
    /\ cp_terms = <<OneKnotTerm>>
    /\ excluded_periods \in SeqsUpTo(StoredPeriods, MaxPeriods)
    /\ weather_definition = SuiteDefaults
    /\ calc_data \in TimedTables
    /\ results = NoResult
    /\ message = ""

ExclNext == SuiteCalculate

SpecExcl == ExclInit /\ [][ExclNext]_vars

-----------------------------------------------------------------------------
(* The event-type filter: one valid CP term, no excluded periods, and      *)
(* every table of at most MaxRows reports of one hour and one ton whose    *)
(* event-type column is absent or carries one of the two names the suite   *)
(* accepts.                                                                *)

ReportedEvents == {"NOON AT SEA", "COSP", "EOSP", "IN PORT"}

EventColumns(event_col) ==
    (AppColumns \ {"event_type"})
        \cup (IF event_col = NoColumn THEN {} ELSE {event_col})

EventRow(event_col, e, d) ==
    [c \in EventColumns(event_col) |->
        CASE c = "distance_travelled_actual" -> Num(d)
          [] c = "steaming_time_hrs" -> Num(1)
          [] c = "me_fuel_consumed" -> Num(1)
          [] c = "day_status" -> Str("GOOD WEATHER DAY")
          [] OTHER -> Str(e)]

EventTables ==
    UNION {{[cols |-> EventColumns(event_col), rows |-> rs, tz_aware |-> FALSE] :
               rs \in SeqsUpTo({EventRow(event_col, e, d) :
                                   e \in ReportedEvents, d \in 1..2}, MaxRows)} :
           event_col \in {NoColumn, "event_type", "event"}}

EventsInit ==
    /\ variant \in {"suite", "app"}
    /\ cp_terms = <<OneKnotTerm>>
    /\ excluded_periods = <<>>
    /\ weather_definition = IF variant = "suite" THEN SuiteDefaults ELSE AppDefaults
    /\ calc_data \in EventTables
    /\ results = NoResult
    /\ message = ""

EventsNext == SuiteCalculate \/ calculations

SpecEvents == EventsInit /\ [][EventsNext]_vars

-----------------------------------------------------------------------------
(* The suite's record normalizer: one valid CP term, no excluded periods,  *)
(* and tables of 1..MaxRows equal reports.  One canonical field carries    *)
(* any subset of its aliases as columns; each other field is absent or     *)
(* carries the column name the app reads.  A numeric cell holds the        *)
(* position of its column in the alias list, so a sum tells which column   *)
(* was read; the "event" column reports a day in port.                     *)

AliasesOf(target) ==
    {column_mapping[target][i] : i \in 1..Len(column_mapping[target])}

AliasColumnSets ==
    UNION {{S \cup T : S \in SUBSET AliasesOf(target), T \in SUBSET AppColumns} :
           target \in DOMAIN column_mapping}

AliasCell(c) ==
    IF \E t \in {"distance", "time_hrs", "me_fuel"} : c \in AliasesOf(t)
    THEN LET t == CHOOSE t \in {"distance", "time_hrs", "me_fuel"} :
                      c \in AliasesOf(t)
         IN  Num(CHOOSE i \in 1..Len(column_mapping[t]) :
                     column_mapping[t][i] = c)
    ELSE IF c = "event_type" THEN Str("NOON AT SEA")
    ELSE IF c = "event" THEN Str("IN PORT")
    ELSE Str("GOOD WEATHER DAY")

AliasTables ==
    {[cols |-> cs, rows |-> [i \in 1..n |-> [c \in cs |-> AliasCell(c)]],
      tz_aware |-> FALSE] : cs \in AliasColumnSets, n \in 1..MaxRows}

AliasInit ==
    /\ variant = "suite"
    /\ cp_terms = <<OneKnotTerm>>
    /\ excluded_periods = <<>>
    /\ weather_definition = SuiteDefaults
    /\ calc_data \in AliasTables
    /\ results = NoResult
    /\ message = ""

AliasNext == SuiteCalculate

SpecAlias == AliasInit /\ [][AliasNext]_vars

-----------------------------------------------------------------------------
(* Malformed cells: one valid CP term, no excluded periods, and every      *)
(* table of one good-weather and one bad-weather noon report whose         *)
(* distance, time and fuel cells are numbers, numerals in text, other      *)
(* text, or empty.  The good day varies cell by cell, the bad day carries  *)
(* one cell in all three fields.                                           *)

CellValues == {Num(1), Num(2), Str("3"), Str("n/a"), NaN}

StatusCells(d, h, f, status) ==
    [c \in AppColumns |->
        CASE c = "event_type" -> Str("NOON AT SEA")
          [] c = "distance_travelled_actual" -> d
          [] c = "steaming_time_hrs" -> h
          [] c = "me_fuel_consumed" -> f
          [] c = "day_status" -> Str(status)]

WindCells(d, h, f, wind) ==
    [c \in WindColumns |->
        CASE c = "event_type" -> Str("NOON AT SEA")
          [] c = "distance_travelled_actual" -> d
          [] c = "steaming_time_hrs" -> h
          [] c = "me_fuel_consumed" -> f
          [] c = "wind_force" -> Num(wind)
          [] c = "wave_height" -> Num(1)]

StatusCellTables ==
    {[cols |-> AppColumns, tz_aware |-> FALSE,
      rows |-> <<StatusCells(d, h, f, "GOOD WEATHER DAY"),
                 StatusCells(b, b, b, "BAD WEATHER DAY")>>] :
        d \in CellValues, h \in CellValues, f \in CellValues, b \in CellValues}

WindCellTables ==
    {[cols |-> WindColumns, tz_aware |-> FALSE,
      rows |-> <<WindCells(d, h, f, 5), WindCells(b, b, b, 6)>>] :
        d \in CellValues, h \in CellValues, f \in CellValues, b \in CellValues}

CellsInit ==
    /\ variant \in {"suite", "app"}
    /\ cp_terms = <<OneKnotTerm>>
    /\ excluded_periods = <<>>
    /\ weather_definition = IF variant = "suite" THEN SuiteDefaults ELSE AppDefaults
    /\ calc_data \in IF variant = "suite"
                     THEN StatusCellTables \cup WindCellTables
                     ELSE StatusCellTables
    /\ results = NoResult
    /\ message = ""

CellsNext == SuiteCalculate \/ calculations

SpecCells == CellsInit /\ [][CellsNext]_vars

-----------------------------------------------------------------------------
(* The fuel comparison around the 1000 nm / 12 kn example: a good-weather  *)
(* day of 24 hours at 11.75, 12 or 12.25 kn burning 15..30 MT, a           *)
(* bad-weather day that completes the 1000 nm, against warranties of       *)
(* 11..13 kn and 20 or 24 MT/day.                                          *)

ExampleDistance == 1000
ExampleGoodDistances == {282, 288, 294}
ExampleFuels == 15..30
ExampleTerms ==
    [speed : {Rat(k, 2) : k \in 22..26},
     me_consumption : {Rat(20, 1), Rat(24, 1)}, ae_consumption : {Zero}]

ExampleStatusTables ==
    {[cols |-> AppColumns, tz_aware |-> FALSE,
      rows |-> <<StatusRow("NOON AT SEA", gd, 24, gf, "GOOD WEATHER DAY"),
                 StatusRow("NOON AT SEA", ExampleDistance - gd, 72, 60,
                           "BAD WEATHER DAY")>>] :
        gd \in ExampleGoodDistances, gf \in ExampleFuels}

ExampleWindTables ==
    {[cols |-> WindColumns, tz_aware |-> FALSE,
      rows |-> <<WindRow("NOON AT SEA", gd, 24, gf, 5),
                 WindRow("NOON AT SEA", ExampleDistance - gd, 72, 60, 6)>>] :
        gd \in ExampleGoodDistances, gf \in ExampleFuels}

ExampleInit ==
    /\ variant \in {"suite", "app"}
    /\ cp_terms \in {<<term>> : term \in ExampleTerms}
    /\ excluded_periods = <<>>
    /\ weather_definition = IF variant = "suite" THEN SuiteDefaults ELSE AppDefaults
    /\ calc_data \in IF variant = "suite" THEN ExampleWindTables
                     ELSE ExampleStatusTables
    /\ results = NoResult
    /\ message = ""

ExampleNext == SuiteCalculate \/ calculations

SpecExample == ExampleInit /\ [][ExampleNext]_vars

-----------------------------------------------------------------------------
(* What the properties below read off a state.                             *)

Positive(q) == q.n > 0
Ran == results.status # "none"
Produced == results.status = "ok"

\* the columns the running program reads
DistanceColumn ==
    IF variant = "suite" THEN ColumnOf(column_dict(calc_data.cols), "distance")
    ELSE "distance_travelled_actual"
TimeColumn ==
    IF variant = "suite" THEN ColumnOf(column_dict(calc_data.cols), "time_hrs")
    ELSE "steaming_time_hrs"
FuelColumn ==
    IF variant = "suite" THEN ColumnOf(column_dict(calc_data.cols), "me_fuel")
    ELSE "me_fuel_consumed"
StatusColumn ==
    IF variant = "suite"
    THEN ColumnOf(column_dict(calc_data.cols), "weather_status")
    ELSE "day_status"

\* the uploaded rows whose event type is an at-sea event
AtSeaRows == EventFilter(calc_data.rows, "event_type")

\* sum of a numeric column over uploaded rows, unparsable cells counting 0
ValueSum(rows, col) == ColumnSum(CoerceRows(rows, {col}), col)

-----------------------------------------------------------------------------
(* C1: whenever the CP-term list is empty when a calculation run starts,   *)
(* the run reports a configuration error and produces no result.           *)
C1_EmptyTermsReportError ==
    (Ran /\ cp_terms = <<>>) => results.status = "config_error"

(* C2: a CP term whose speed is not greater than 0.5 kn, or whose speed or *)
(* ME consumption is not positive, is never in the CP-term list.           *)
C2_OnlyValidTermsStored ==
    \A i \in 1..Len(cp_terms) :
        /\ RatGt(cp_terms[i].speed, speed_tolerance_knots)
        /\ Positive(cp_terms[i].me_consumption)

(* C3: for every table and every CP term the form accepts, no division of  *)
(* a run has a zero denominator unless it is guarded to yield 0.           *)
C3_NoDivisionByZero == results.status # "div_by_zero"

(* C4: when a run produces a result, fuel_overconsumption and fuel_saving  *)
(* are never both greater than 0.                                          *)
C4_FuelExclusive ==
    Produced =>
        ~ (Positive(results.fuel_overconsumption) /\ Positive(results.fuel_saving))

\* an over-consumption against a warranty the form's limits would accept
C4_Witness ==
    /\ Produced
    /\ RatGt(results.warranted_speed, speed_tolerance_knots)
    /\ Positive(results.warranted_consumption)
    /\ Positive(results.fuel_overconsumption)
    /\ results.fuel_saving = Zero

(* C5: when a run produces a result, time_gained and time_lost are never   *)
(* both greater than 0.                                                    *)
C5_TimeExclusive ==
    Produced => ~ (Positive(results.time_gained) /\ Positive(results.time_lost))

\* a loss of time; the clamped effective speed leaves none for a warranted
\* speed above the tolerance, so the case needs one at or below it
C5_Witness ==
    /\ Produced
    /\ Positive(results.time_lost)
    /\ results.time_gained = Zero

(* C6: the effective speed is good_speed if it lies strictly inside the    *)
(* band, else warranted_speed + 0.5 if good_speed is above the band, else  *)
(* warranted_speed - 0.5 (also when good_speed equals either band edge).   *)
C6_Rule(good_speed, warranted_speed) ==
    LET lower == RatSub(warranted_speed, Rat(1, 2))
        upper == RatAdd(warranted_speed, Rat(1, 2))
    IN  IF RatGt(good_speed, lower) /\ RatLt(good_speed, upper) THEN good_speed
        ELSE IF RatGt(good_speed, upper) THEN upper
        ELSE lower

\* stated for the warranties the form's limits would accept
C6_EffectiveSpeedRule ==
    (Produced /\ RatGt(results.warranted_speed, Rat(1, 2))
        /\ Positive(results.warranted_consumption)) =>
        results.effective_speed =
            C6_Rule(results.good_wx_speed, results.warranted_speed)

(* C7: with a resolved weather-status column, the records whose status is  *)
(* exactly "GOOD WEATHER DAY" make up the good-weather sums, those whose   *)
(* status is exactly "BAD WEATHER DAY" the bad-weather sums, and every     *)
(* surviving record counts in the voyage totals.                           *)
C7_WithStatus(status) ==
    SelectSeq(AtSeaRows, LAMBDA r : r[StatusColumn] = Str(status))

C7_StatusClassesCounted ==
    (Produced /\ StatusColumn \in calc_data.cols /\ excluded_periods = <<>>) =>
        /\ results.good_wx_distance =
               ValueSum(C7_WithStatus("GOOD WEATHER DAY"), DistanceColumn)
        /\ results.good_wx_time =
               ValueSum(C7_WithStatus("GOOD WEATHER DAY"), TimeColumn)
        /\ results.good_wx_fo_cons =
               ValueSum(C7_WithStatus("GOOD WEATHER DAY"), FuelColumn)
        /\ results.bad_wx_distance =
               ValueSum(C7_WithStatus("BAD WEATHER DAY"), DistanceColumn)
        /\ results.bad_wx_time =
               ValueSum(C7_WithStatus("BAD WEATHER DAY"), TimeColumn)
        /\ results.bad_wx_fo_cons =
               ValueSum(C7_WithStatus("BAD WEATHER DAY"), FuelColumn)
        /\ results.total_distance = ValueSum(AtSeaRows, DistanceColumn)
        /\ results.total_steaming_time = ValueSum(AtSeaRows, TimeColumn)
        /\ results.total_me_fuel = ValueSum(AtSeaRows, FuelColumn)

(* C8: without a weather-status column a surviving record is BAD exactly   *)
(* when its wind force exceeds beaufort_limit, or its wave height exceeds  *)
(* wave_height_limit_m, or include_current is on and its current exceeds   *)
(* 1.0; a missing wind, wave or current field exceeds nothing; every other *)
(* record is GOOD.                                                         *)
C8_Over(r, col, limit) ==
    col \in calc_data.cols /\ r[col].t = "num" /\ RatGt(Rat(r[col].n, 1), limit)

C8_IsBad(r) ==
    \/ C8_Over(r, "wind_force", Rat(weather_definition.beaufort_scale, 1))
    \/ C8_Over(r, "wave_height", weather_definition.wave_height)
    \/ weather_definition.include_current /\ C8_Over(r, "current", Rat(1, 1))

C8_ThresholdClassification ==
    (Produced /\ variant = "suite" /\ StatusColumn = NoColumn
        /\ excluded_periods = <<>>) =>
        /\ results.bad_wx_distance =
               ValueSum(SelectSeq(AtSeaRows, C8_IsBad), DistanceColumn)
        /\ results.bad_wx_time =
               ValueSum(SelectSeq(AtSeaRows, C8_IsBad), TimeColumn)
        /\ results.good_wx_distance =
               ValueSum(SelectSeq(AtSeaRows, LAMBDA r : ~C8_IsBad(r)), DistanceColumn)
        /\ results.good_wx_time =
               ValueSum(SelectSeq(AtSeaRows, LAMBDA r : ~C8_IsBad(r)), TimeColumn)

(* C9: the weather split is a partition of the surviving records: no       *)
(* record is in both classes, every record is in exactly one of good, bad  *)
(* or neither, and the three distances add up to total_distance.           *)
C9_Good ==
    IF variant = "suite"
    THEN SuiteGoodDays(results.df_processed, calc_data.cols, weather_definition)
    ELSE AppGoodDays(results.df_processed)

C9_Bad ==
    IF variant = "suite"
    THEN SuiteBadDays(results.df_processed, calc_data.cols, weather_definition)
    ELSE AppBadDays(results.df_processed)

C9_Neither ==
    SelectSeq(results.df_processed,
              LAMBDA r : /\ \A i \in 1..Len(C9_Good) : C9_Good[i] # r
                         /\ \A i \in 1..Len(C9_Bad) : C9_Bad[i] # r)

C9_WeatherPartition ==
    Produced =>
        /\ \A i \in 1..Len(C9_Good) : \A j \in 1..Len(C9_Bad) : C9_Good[i] # C9_Bad[j]
        /\ Len(C9_Good) + Len(C9_Bad) + Len(C9_Neither) = Len(results.df_processed)
        /\ results.good_wx_distance + results.bad_wx_distance
               + ColumnSum(C9_Neither, DistanceColumn) = results.total_distance

C9_Witness ==
    /\ Produced
    /\ results.good_wx_distance > 0
    /\ ColumnSum(C9_Neither, DistanceColumn) > 0
    /\ results.bad_wx_distance = 0

(* C10: with a timestamp column and at least one excluded period, a run    *)
(* removes before any sum every record whose timestamp lies in the closed  *)
(* interval of some stored period and keeps every other record.            *)
C10_InSomePeriod(r) ==
    \E i \in 1..Len(excluded_periods) :
        /\ excluded_periods[i].from <= r["datetime"].n
        /\ r["datetime"].n <= excluded_periods[i].to

C10_Kept == SelectSeq(AtSeaRows, LAMBDA r : ~C10_InSomePeriod(r))

C10_ExcludedRecordsRemoved ==
    (/\ Produced
     /\ "datetime" \in calc_data.cols
     /\ excluded_periods # <<>>
     /\ \A i \in 1..Len(excluded_periods) :
            excluded_periods[i].from < excluded_periods[i].to) =>
        /\ Len(results.df_processed) = Len(C10_Kept)
        /\ results.total_distance = ValueSum(C10_Kept, DistanceColumn)
        /\ results.total_steaming_time = ValueSum(C10_Kept, TimeColumn)
        /\ results.total_me_fuel = ValueSum(C10_Kept, FuelColumn)

C12_Survivors(periods) ==
    LET r == process_calculation_data(calc_data, cp_terms,
                                      weather_definition, periods)
    IN  IF r.status = "ok" THEN r.df_processed ELSE <<>>

C12_Count(rows, r) == Cardinality({i \in 1..Len(rows) : rows[i] = r})

C12_ExclusionMonotonic ==
    (Ran /\ variant = "suite") =>
        \A p \in [from : Instants, to : Instants] :
            LET less == IF Produced THEN results.df_processed ELSE <<>>
                more == C12_Survivors(Append(excluded_periods, p))
            IN  /\ Len(more) <= Len(less)
                /\ \A i \in 1..Len(more) :
                       C12_Count(more, more[i]) <= C12_Count(less, more[i])

\* a run that drops one record and keeps another, and a further period
\* that would drop the one it kept
C12_Witness ==
    /\ Produced
    /\ variant = "suite"
    /\ excluded_periods # <<>>
    /\ Len(results.df_processed) > 0
    /\ Len(results.df_processed) < Len(calc_data.rows)
    /\ \E p \in StoredPeriods :
           Len(C12_Survivors(Append(excluded_periods, p)))
               < Len(results.df_processed)

(* C13: if the table has an event-type column, exactly the records whose   *)
(* event type is NOON AT SEA, COSP or EOSP pass the filter; if it has      *)
(* none, every record passes and the run still produces a result.          *)
C13_EventColumn ==
    IF "event_type" \in calc_data.cols THEN "event_type"
    ELSE IF "event" \in calc_data.cols THEN "event"
    ELSE NoColumn

C13_Passing ==
    IF C13_EventColumn = NoColumn THEN calc_data.rows
    ELSE SelectSeq(calc_data.rows,
                   LAMBDA r : r[C13_EventColumn] \in
                       {Str("NOON AT SEA"), Str("COSP"), Str("EOSP")})

\* stated for the tables that hold at least one record
C13_EventFilterApplied ==
    (Ran /\ excluded_periods = <<>> /\ calc_data.rows # <<>>) =>
        /\ Produced
        /\ Len(results.df_processed) = Len(C13_Passing)
        /\ results.total_distance =
               ValueSum(C13_Passing, "distance_travelled_actual")

(* C14: the normalizer resolves each canonical field to the first alias of *)
(* its ordered list that is a column of the table; a field without any     *)
(* alias stays unresolved, every sum that depends on it is 0 and the run   *)
(* still produces a result.                                                *)
C14_First(field) ==
    LET aliases == column_mapping[field]
        present == {i \in 1..Len(aliases) : aliases[i] \in calc_data.cols}
    IN  IF present = {} THEN NoColumn
        ELSE aliases[CHOOSE i \in present : \A j \in present : i <= j]

C14_Survivors ==
    IF C14_First("event_type") = NoColumn THEN calc_data.rows
    ELSE EventFilter(calc_data.rows, C14_First("event_type"))

C14_Total(field) ==
    IF C14_First(field) = NoColumn THEN 0
    ELSE ValueSum(C14_Survivors, C14_First(field))

C14_AliasResolution ==
    (Ran /\ variant = "suite") =>
        /\ \A field \in DOMAIN column_mapping :
               ColumnOf(column_dict(calc_data.cols), field) = C14_First(field)
        /\ Produced
        /\ results.total_distance = C14_Total("distance")
        /\ results.total_steaming_time = C14_Total("time_hrs")
        /\ results.total_me_fuel = C14_Total("me_fuel")
        /\ C14_First("distance") = NoColumn =>
               results.good_wx_distance = 0 /\ results.bad_wx_distance = 0
        /\ C14_First("time_hrs") = NoColumn =>
               results.good_wx_time = 0 /\ results.bad_wx_time = 0
        /\ C14_First("me_fuel") = NoColumn =>
               results.good_wx_fo_cons = 0 /\ results.bad_wx_fo_cons = 0

\* the second alias wins over the fourth while the time field is unresolved
C14_Witness ==
    /\ Produced
    /\ variant = "suite"
    /\ {"distance_travelled", "distance_nm"} \subseteq calc_data.cols
    /\ "distance" \notin calc_data.cols
    /\ C14_First("time_hrs") = NoColumn
    /\ results.total_distance = 2 * Len(calc_data.rows)
    /\ results.total_steaming_time = 0

(* C15: a surviving record whose distance, time or fuel cell is not a      *)
(* number contributes 0 to every sum over that field it takes part in      *)
(* (the voyage total and the sum of its weather class), its parsable       *)
(* fields contribute their values, and the run produces a result.          *)
C15_Value(cell) ==
    CASE cell.t = "num" -> cell.n
      [] cell = Str("0") -> 0
      [] cell = Str("1") -> 1
      [] cell = Str("2") -> 2
      [] cell = Str("3") -> 3
      [] OTHER -> 0

\* sum of the cells of `col` over the surviving records 1..i that are in S
RECURSIVE C15_Sum(_, _, _)
C15_Sum(i, S, col) ==
    IF i = 0 THEN 0
    ELSE (IF i \in S THEN C15_Value(AtSeaRows[i][col]) ELSE 0)
         + C15_Sum(i - 1, S, col)

\* the surviving records the run put into a weather class
C15_Class(class) ==
    {i \in 1..Len(results.df_processed) :
        \E j \in 1..Len(class) : class[j] = results.df_processed[i]}

C15_UnparsableCellsCountZero ==
    Ran =>
        /\ Produced
        /\ Len(results.df_processed) = Len(AtSeaRows)
        /\ LET n == Len(AtSeaRows)
               all == 1..n
               good == C15_Class(C9_Good)
               bad == C15_Class(C9_Bad)
           IN  /\ results.total_distance = C15_Sum(n, all, DistanceColumn)
               /\ results.total_steaming_time = C15_Sum(n, all, TimeColumn)
               /\ results.total_me_fuel = C15_Sum(n, all, FuelColumn)
               /\ results.good_wx_distance = C15_Sum(n, good, DistanceColumn)
               /\ results.good_wx_time = C15_Sum(n, good, TimeColumn)
               /\ results.good_wx_fo_cons = C15_Sum(n, good, FuelColumn)
               /\ results.bad_wx_distance = C15_Sum(n, bad, DistanceColumn)
               /\ results.bad_wx_time = C15_Sum(n, bad, TimeColumn)
               /\ results.bad_wx_fo_cons = C15_Sum(n, bad, FuelColumn)

\* a good day with unreadable distance, time "3" in text and no fuel entry
C15_Witness ==
    /\ Produced
    /\ calc_data.rows[1]["distance_travelled_actual"] = Str("n/a")
    /\ calc_data.rows[1]["steaming_time_hrs"] = Str("3")
    /\ calc_data.rows[1]["me_fuel_consumed"] = NaN
    /\ calc_data.rows[2]["steaming_time_hrs"] = Num(2)
    /\ results.good_wx_distance = 0
    /\ results.good_wx_time = 3
    /\ results.good_wx_fo_cons = 0
    /\ results.total_steaming_time = 5

(* C16: voyage_avg_speed, good_speed, the good fuel rate per hour and      *)
(* bad_speed are numerator / denominator when their time denominator is    *)
(* greater than 0 and 0 when it is 0; entire_voyage_cons is                *)
(* (total_distance / good_speed) * (good fuel rate per day / 24) when      *)
(* good_speed > 0 and 0 when good_speed = 0; no division error is raised.  *)
C16_IsQuotient(q, numerator, denominator) ==
    IF denominator > 0
    THEN q.n * denominator = numerator * q.d
    ELSE denominator = 0 => q = Zero

C16_GuardedQuotients ==
    /\ (Ran /\ RatGt(cp_terms[1].speed, Rat(1, 2))) => Produced
    /\ Produced =>
        /\ C16_IsQuotient(results.voyage_avg_speed,
                          results.total_distance, results.total_steaming_time)
        /\ C16_IsQuotient(results.good_wx_speed,
                          results.good_wx_distance, results.good_wx_time)
        /\ C16_IsQuotient(results.good_wx_fo_rate_hr,
                          results.good_wx_fo_cons, results.good_wx_time)
        /\ C16_IsQuotient(results.bad_wx_speed,
                          results.bad_wx_distance, results.bad_wx_time)
        /\ results.entire_voyage_cons =
               IF RatGt(results.good_wx_speed, Zero)
               THEN RatMul(RatDiv(Rat(results.total_distance, 1),
                                  results.good_wx_speed),
                           RatDiv(results.good_wx_fo_rate_day, Rat(24, 1)))
               ELSE IF results.good_wx_speed = Zero THEN Zero
               ELSE results.entire_voyage_cons

\* bad-weather miles in no time next to a good-weather speed of 3/2 kn
C16_Witness ==
    /\ Produced
    /\ RatGt(results.warranted_speed, Rat(1, 2))
    /\ results.bad_wx_distance > 0
    /\ results.bad_wx_time = 0
    /\ results.bad_wx_speed = Zero
    /\ results.good_wx_speed = Rat(3, 2)
    /\ Positive(results.entire_voyage_cons)

(* C17: the effective-speed rule is idempotent: applied to its own output  *)
(* it returns that output again, and a good_speed inside the closed band   *)
(* [warranted_speed - 0.5, warranted_speed + 0.5] is returned unchanged.   *)
C17_Rule(speed, warranted_speed) ==
    IF variant = "suite" THEN effective_speed(speed, warranted_speed)
    ELSE speed_condition(speed, warranted_speed)

C17_Lower == RatSub(results.warranted_speed, Rat(1, 2))
C17_Upper == RatAdd(results.warranted_speed, Rat(1, 2))

C18_SurvivorsUnchanged ==
    (Produced /\ excluded_periods = <<>>) =>
        /\ Len(results.df_processed) = Len(AtSeaRows)
        /\ \A i \in 1..Len(results.df_processed) :
               \A c \in calc_data.cols :
                   results.df_processed[i][c] = AtSeaRows[i][c]

(* C19: with total_distance > 0 and good_speed strictly inside the speed   *)
(* band, fuel_overconsumption > 0 exactly when the good fuel rate per day  *)
(* exceeds 1.05 * warranted_consumption, fuel_saving > 0 exactly when it   *)
(* is below 0.95 * warranted_consumption, and both are 0 in between; for   *)
(* 1000 nm at 12 kn against 12 kn / 20 MT per day, a rate of 20 MT/day     *)
(* gives 0 and 0 and a rate of 25 MT/day gives an over-consumption of      *)
(* (1000/12) * (25 - 21) / 24 and a saving of 0.                           *)
C19_InsideBand ==
    /\ RatGt(results.good_wx_speed, RatSub(results.warranted_speed, Rat(1, 2)))
    /\ RatLt(results.good_wx_speed, RatAdd(results.warranted_speed, Rat(1, 2)))

C19_Example(rate) ==
    /\ results.total_distance = 1000
    /\ results.good_wx_speed = Rat(12, 1)
    /\ results.warranted_speed = Rat(12, 1)
    /\ results.warranted_consumption = Rat(20, 1)
    /\ results.good_wx_fo_rate_day = Rat(rate, 1)

C19_FuelThresholds ==
    (Produced /\ results.total_distance > 0 /\ C19_InsideBand) =>
        LET rate == results.good_wx_fo_rate_day
            upper == RatMul(Rat(105, 100), results.warranted_consumption)
            lower == RatMul(Rat(95, 100), results.warranted_consumption)
        IN  /\ Positive(results.fuel_overconsumption) <=> RatGt(rate, upper)
            /\ Positive(results.fuel_saving) <=> RatLt(rate, lower)
            /\ (~RatGt(rate, upper) /\ ~RatLt(rate, lower)) =>
                   /\ results.fuel_overconsumption = Zero
                   /\ results.fuel_saving = Zero
            /\ C19_Example(20) =>
                   /\ results.fuel_overconsumption = Zero
                   /\ results.fuel_saving = Zero
            /\ C19_Example(25) =>
                   /\ results.fuel_overconsumption =
                          RatDiv(RatMul(Rat(1000, 12), Rat(25 - 21, 1)),
                                 Rat(24, 1))
                   /\ results.fuel_saving = Zero

\* the 25 MT/day example
C19_Witness ==
    /\ Produced
    /\ C19_InsideBand
    /\ C19_Example(25)
    /\ Positive(results.fuel_overconsumption)

(* C20: for the same records (event_type, distance_travelled_actual,       *)
(* steaming_time_hrs, me_fuel_consumed and day_status columns, no excluded *)
(* periods) and the same non-empty CP-term list, process_calculation_data  *)
(* and perform_calculations return the same value for every metric both    *)
(* report.                                                                 *)
C20_Metrics ==
    {"total_distance", "total_steaming_time", "total_me_fuel",
     "voyage_avg_speed", "good_wx_distance", "good_wx_time", "good_wx_speed",
     "good_wx_fo_cons", "good_wx_fo_rate_hr", "good_wx_fo_rate_day",
     "bad_wx_distance", "bad_wx_time", "bad_wx_speed", "bad_wx_fo_cons",
     "entire_voyage_cons", "max_warranted_fo", "min_warranted_fo",
     "fuel_overconsumption", "fuel_saving", "time_gained", "time_lost"}

C20_VariantsEquivalent ==
    (/\ Ran
     /\ calc_data.cols = AppColumns
     /\ excluded_periods = <<>>
     /\ cp_terms # <<>>) =>
        LET suite == process_calculation_data(calc_data, cp_terms,
                                              weather_definition, <<>>)
            app == perform_calculations(calc_data, cp_terms)
        IN  /\ suite.status = app.status
            /\ suite.status = "ok" =>
                   \A metric \in C20_Metrics : suite[metric] = app[metric]

(* C21: for a warranted speed above 0.5 and a non-negative total distance  *)
(* the effective speed lies in the closed band [warranted_speed - 0.5,     *)
(* warranted_speed + 0.5], the time at the effective speed lies between    *)
(* min_time and max_time, and the run reports time_gained = 0 and          *)
(* time_lost = 0.                                                          *)
C21_Lower == RatSub(results.warranted_speed, speed_tolerance_knots)
C21_Upper == RatAdd(results.warranted_speed, speed_tolerance_knots)

C21_NoTimeDifference ==
    (Produced /\ RatGt(results.warranted_speed, speed_tolerance_knots)
        /\ results.total_distance >= 0) =>
        /\ ~RatLt(results.effective_speed, C21_Lower)
        /\ ~RatGt(results.effective_speed, C21_Upper)
        /\ ~RatLt(results.time_at_good_wx_speed,
                  results.min_time_at_warranted_spd)
        /\ ~RatGt(results.time_at_good_wx_speed,
                  results.max_time_at_warranted_spd)
        /\ results.time_gained = Zero
        /\ results.time_lost = Zero

\* the app, a vessel slower than the band over a distance that takes time:
\* the effective speed is the lower edge and the time equals max_time
C21_Witness ==
    /\ Produced
    /\ variant = "app"
    /\ RatGt(results.warranted_speed, speed_tolerance_knots)
    /\ results.total_distance > 0
    /\ Positive(results.good_wx_speed)
    /\ RatLt(results.good_wx_speed, C21_Lower)
    /\ results.effective_speed = C21_Lower
    /\ results.time_at_good_wx_speed = results.max_time_at_warranted_spd
    /\ results.time_lost = Zero
    /\ results.time_gained = Zero

====
